---- MODULE Spec2Model ----
(***************************************************************************)
(* Model of the address resolver (geocode_address_nominatim), the          *)
(* nearest-branch locator (haversine_distance, find_nearest_branch) and    *)
(* the branch-search form of pedidos_unificados_page in src/app.py.        *)
(*                                                                         *)
(* Python values are modelled as tagged records:                           *)
(*   JSON values   [t |-> "int"|"bigint"|"str"|"null"|"list"|"dict", ...]  *)
(*   floats        [k |-> "fin", v |-> n] | [k |-> "nan"] |                *)
(*                 [k |-> "inf", s |-> 1 or -1]                            *)
(*   call outcomes [ok |-> TRUE, val |-> v] | [ok |-> FALSE, exc |-> name] *)
(* Finite coordinates live on the lattice {-60, 0, 60} degrees, where the  *)
(* haversine terms sin^2 and cos are rational and are computed exactly in  *)
(* sixteenths.  Finite distances are whole kilometres.                     *)
(***************************************************************************)
EXTENDS Integers, Sequences, FiniteSets, TLC

(***************************************************************************)
(* Bounds of the model.                                                    *)
(***************************************************************************)
MaxBranches == 3

(***************************************************************************)
(* Python values.                                                          *)
(***************************************************************************)
JInt(n) == [t |-> "int", v |-> n]
\* a JSON integer literal whose magnitude is at least 2^1024
JBigInt == [t |-> "bigint"]
JStr(s) == [t |-> "str", s |-> s]
JNull == [t |-> "null"]
JList(items) == [t |-> "list", items |-> items]
JDict(d) == [t |-> "dict", d |-> d]

Fin(n) == [k |-> "fin", v |-> n]
NaN == [k |-> "nan"]
Inf(sgn) == [k |-> "inf", s |-> sgn]

Ok(v) == [ok |-> TRUE, val |-> v]
Raise(e) == [ok |-> FALSE, exc |-> e]

\* the absent value
None == [t |-> "None"]

(***************************************************************************)
(* Exception classes and the except clauses.                               *)
(***************************************************************************)
Mro(exc) ==
  CASE exc = "KeyError" -> {"KeyError", "LookupError", "Exception"}
    [] exc = "ValueError" -> {"ValueError", "Exception"}
    [] exc = "TypeError" -> {"TypeError", "Exception"}
    [] exc = "IndexError" -> {"IndexError", "LookupError", "Exception"}
    [] exc = "OverflowError" -> {"OverflowError", "ArithmeticError", "Exception"}
    [] exc = "JSONDecodeError" -> {"JSONDecodeError", "ValueError", "Exception"}
    [] exc = "ConnectionError" -> {"ConnectionError", "RequestException", "Exception"}
    [] exc = "Timeout" -> {"Timeout", "RequestException", "Exception"}

IsInstance(exc, classes) == Mro(exc) \cap classes # {}

\* app.py:54  except (requests.RequestException, ValueError, KeyError)
GeocodeExcept == {"RequestException", "ValueError", "KeyError"}

\* app.py:77  except (KeyError, ValueError, TypeError)
LocatorExcept == {"KeyError", "ValueError", "TypeError"}

(***************************************************************************)
(* Text: sequences of one-character strings.                               *)
(***************************************************************************)
Whitespace == {" ", "\t", "\n"}
Digits == {"0", "1", "2", "3", "4", "5", "6", "7", "8", "9"}

DigitVal(c) ==
  CASE c = "0" -> 0 [] c = "1" -> 1 [] c = "2" -> 2 [] c = "3" -> 3
    [] c = "4" -> 4 [] c = "5" -> 5 [] c = "6" -> 6 [] c = "7" -> 7
    [] c = "8" -> 8 [] c = "9" -> 9

RECURSIVE LStrip(_)
LStrip(s) ==
  IF s # <<>> /\ Head(s) \in Whitespace THEN LStrip(Tail(s)) ELSE s

RECURSIVE RStrip(_)
RStrip(s) ==
  IF s # <<>> /\ s[Len(s)] \in Whitespace
    THEN RStrip(SubSeq(s, 1, Len(s) - 1))
    ELSE s

\* str.strip()
Strip(s) == RStrip(LStrip(s))

RECURSIVE DecVal(_)
DecVal(s) ==
  IF s = <<>> THEN 0 ELSE 10 * DecVal(SubSeq(s, 1, Len(s) - 1)) + DigitVal(s[Len(s)])

AllDigits(s) == s # <<>> /\ \A i \in 1..Len(s) : s[i] \in Digits

\* float(<str>): surrounding whitespace is ignored, then an optional sign
\* followed by decimal digits, or one of the special words
ParseFloat(s) ==
  LET b == Strip(s)
      neg == b # <<>> /\ Head(b) = "-"
      pos == b # <<>> /\ Head(b) = "+"
      u == IF neg \/ pos THEN Tail(b) ELSE b
  IN  IF u = <<"n", "a", "n">> THEN Ok(NaN)
      ELSE IF u = <<"i", "n", "f">> THEN Ok(Inf(IF neg THEN -1 ELSE 1))
      ELSE IF AllDigits(u) THEN Ok(Fin(IF neg THEN 0 - DecVal(u) ELSE DecVal(u)))
      ELSE Raise("ValueError")

\* float(x) for a JSON value x
py_float(x) ==
  CASE x.t = "int" -> Ok(Fin(x.v))
    [] x.t = "bigint" -> Raise("OverflowError")
    [] x.t = "str" -> ParseFloat(x.s)
    [] x.t \in {"null", "list", "dict"} -> Raise("TypeError")

\* obj[key] for a string key
GetKey(obj, key) ==
  IF obj.t = "dict"
    THEN IF key \in DOMAIN obj.d THEN Ok(obj.d[key]) ELSE Raise("KeyError")
    ELSE Raise("TypeError")

\* obj[-1]: the last element where obj[0] reads the first
GetLast(obj) ==
  CASE obj.t = "list" ->
         IF obj.items # <<>> THEN Ok(obj.items[Len(obj.items)]) ELSE Raise("IndexError")
    [] obj.t = "dict" -> Raise("KeyError")
    [] obj.t = "str" ->
         IF obj.s # <<>> THEN Ok(JStr(<<obj.s[Len(obj.s)]>>)) ELSE Raise("IndexError")
    [] obj.t \in {"int", "bigint", "null"} -> Raise("TypeError")

\* obj[0]
GetFirst(obj) ==
  CASE obj.t = "list" ->
         IF obj.items # <<>> THEN Ok(obj.items[1]) ELSE Raise("IndexError")
    [] obj.t = "dict" -> Raise("KeyError")
    [] obj.t = "str" ->
         IF obj.s # <<>> THEN Ok(JStr(<<obj.s[1]>>)) ELSE Raise("IndexError")
    [] obj.t \in {"int", "bigint", "null"} -> Raise("TypeError")

\* not obj
Falsy(obj) ==
  CASE obj.t = "list" -> obj.items = <<>>
    [] obj.t = "dict" -> DOMAIN obj.d = {}
    [] obj.t = "str" -> obj.s = <<>>
    [] obj.t = "int" -> obj.v = 0
    [] obj.t = "null" -> TRUE
    [] obj.t = "bigint" -> FALSE

(***************************************************************************)
(* Float arithmetic.                                                       *)
(***************************************************************************)
\* x - y
FSub(x, y) ==
  IF x.k = "nan" \/ y.k = "nan" THEN NaN
  ELSE IF x.k = "inf" /\ y.k = "inf" THEN (IF x.s = y.s THEN NaN ELSE x)
  ELSE IF x.k = "inf" THEN x
  ELSE IF y.k = "inf" THEN Inf(0 - y.s)
  ELSE Fin(x.v - y.v)

\* x < y
FLess(x, y) ==
  IF x.k = "nan" \/ y.k = "nan" THEN FALSE
  ELSE IF x.k = "inf" THEN x.s = -1 /\ (y.k = "fin" \/ y.s = 1)
  ELSE IF y.k = "inf" THEN y.s = 1
  ELSE x.v < y.v

Abs(n) == IF n < 0 THEN 0 - n ELSE n

\* 4 * cos(radians(d) / 2) ** 2, the cosine in place of the sine
Hav4Cos(d) ==
  CASE Abs(d) % 360 = 0 -> 4
    [] Abs(d) % 360 \in {60, 300} -> 3
    [] Abs(d) % 360 \in {120, 240} -> 1
    [] Abs(d) % 360 = 180 -> 0

\* 4 * sin(radians(d) / 2) ** 2 for d a multiple of 60 degrees
Hav4(d) ==
  CASE Abs(d) % 360 = 0 -> 0
    [] Abs(d) % 360 \in {60, 300} -> 1
    [] Abs(d) % 360 \in {120, 240} -> 3
    [] Abs(d) % 360 = 180 -> 4

\* 2 * cos(radians(lat)) for lat in {-60, 0, 60}
Cos2(lat) ==
  CASE lat = 0 -> 2
    [] Abs(lat) = 60 -> 1

\* R * 2 * atan2(sqrt(a), sqrt(1 - a)) in whole km, R = 6371.0, a = a16 / 16
KmOfA16 ==
  <<3220, 4605, 5706, 6672, 7559, 8398, 9209, 10008,
    10806, 11617, 12457, 13343, 14309, 15411, 16795, 20015>>

ArcKm(a16) == IF a16 = 0 THEN 0 ELSE KmOfA16[a16]

\* the cosine of the first latitude taken twice
haversine_skewed(lat1, lon1, lat2, lon2) ==
  LET dlat == FSub(lat2, lat1)
      dlon == FSub(lon2, lon1)
      args == {dlat, dlon, lat1, lat2}
  IN  IF \E x \in args : x.k = "inf" THEN Raise("ValueError")
      ELSE IF \E x \in args : x.k = "nan" THEN Ok(NaN)
      ELSE LET a16 == 4 * Hav4(dlat.v) + Cos2(lat1.v) * Cos2(lat1.v) * Hav4(dlon.v)
           IN  IF a16 > 16 THEN Raise("ValueError") ELSE Ok(Fin(ArcKm(a16)))

\* app.py:58-65
haversine_distance(lat1, lon1, lat2, lon2) ==
  LET dlat == FSub(lat2, lat1)
      dlon == FSub(lon2, lon1)
      args == {dlat, dlon, lat1, lat2}
  IN  IF \E x \in args : x.k = "inf" THEN Raise("ValueError")
      ELSE IF \E x \in args : x.k = "nan" THEN Ok(NaN)
      ELSE LET a16 == 4 * Hav4(dlat.v) + Cos2(lat1.v) * Cos2(lat2.v) * Hav4(dlon.v)
           IN  IF a16 > 16 THEN Raise("ValueError") ELSE Ok(Fin(ArcKm(a16)))

(***************************************************************************)
(* The address resolver.                                                   *)
(***************************************************************************)
\* outcome of requests.get(...) followed by resp.json()
NetworkError(e) == [kind |-> "exc", exc |-> e]
Body(json) == [kind |-> "body", json |-> json]

\* the except clause of app.py:54-55
geocode_handle(exc) ==
  IF IsInstance(exc, GeocodeExcept) THEN Ok(None) ELSE Raise(exc)

\* float(item[key])
float_of_key(item, key) ==
  LET x == GetKey(item, key)
  IN  IF x.ok THEN py_float(x.val) ELSE x

\* app.py:49-53 for a parsed body
geocode_first_candidate(data) ==
  IF Falsy(data) THEN Ok(None)
  ELSE LET first == GetFirst(data)
       IN  IF ~first.ok THEN first
           ELSE LET lat == float_of_key(first.val, "lat")
                IN  IF ~lat.ok THEN lat
                    ELSE LET lon == float_of_key(first.val, "lon")
                         IN  IF ~lon.ok THEN lon
                             ELSE Ok([lat |-> lat.val, lon |-> lon.val])

\* app.py:46-55: what the function returns or raises once requests.get has
\* produced the outcome r
geocode_address_nominatim(r) ==
  IF r.kind = "exc" THEN geocode_handle(r.exc)
  ELSE IF ~r.json.ok THEN geocode_handle(r.json.exc)
  ELSE LET res == geocode_first_candidate(r.json.val)
       IN  IF res.ok THEN res ELSE geocode_handle(res.exc)

(***************************************************************************)
(* The nearest-branch locator.                                             *)
(***************************************************************************)
\* app.py:73  haversine_distance(user_lat, user_lon, float(s["lat"]), float(s["lng"]))
branch_distance(lat, lon, s) ==
  LET blat == float_of_key(s, "lat")
  IN  IF ~blat.ok THEN blat
      ELSE LET blng == float_of_key(s, "lng")
           IN  IF ~blng.ok THEN blng
               ELSE haversine_distance(lat, lon, blat.val, blng.val)

\* the entry replaces nearest whenever its distance was computed, while
\* min_dist follows the comparison
loop_body_keep(st, lat, lon, s, idx) ==
  LET dist == branch_distance(lat, lon, s)
  IN  IF dist.ok
        THEN IF FLess(dist.val, st.min_dist)
               THEN Ok([nearest |-> idx, min_dist |-> dist.val])
               ELSE Ok([nearest |-> idx, min_dist |-> st.min_dist])
        ELSE IF IsInstance(dist.exc, LocatorExcept) THEN Ok(st) ELSE Raise(dist.exc)

\* app.py:72-78: one iteration of the loop on the entry at index idx; st holds
\* the locals nearest (an index into the list, 0 for None) and min_dist
loop_body(st, lat, lon, s, idx) ==
  LET dist == branch_distance(lat, lon, s)
  IN  IF dist.ok
        THEN IF FLess(dist.val, st.min_dist)
               THEN Ok([nearest |-> idx, min_dist |-> dist.val])
               ELSE Ok(st)
        ELSE IF IsInstance(dist.exc, LocatorExcept) THEN Ok(st) ELSE Raise(dist.exc)

\* app.py:69-70
locator_init == [nearest |-> 0, min_dist |-> Inf(1)]

RECURSIVE scan_from(_, _, _, _, _)
scan_from(st, lat, lon, sucursales, idx) ==
  IF idx > Len(sucursales) THEN Ok(st)
  ELSE LET r == loop_body(st, lat, lon, sucursales[idx], idx)
       IN  IF r.ok THEN scan_from(r.val, lat, lon, sucursales, idx + 1) ELSE r

\* app.py:68-79 as a function of its arguments
find_nearest_branch(lat, lon, sucursales) ==
  scan_from(locator_init, lat, lon, sucursales, 1)

(***************************************************************************)
(* Inputs.                                                                 *)
(***************************************************************************)
T_0 == <<"0">>
T_60 == <<"6", "0">>
T_m60 == <<"-", "6", "0">>
T_pad60 == <<" ", "6", "0", "\n">>
T_abc == <<"a", "b", "c">>
T_nan == <<"n", "a", "n">>
T_inf == <<"i", "n", "f">>

\* entries a branch file can hold
Branch(nombre, lat, lng) ==
  JDict([nombre |-> JStr(nombre), lat |-> lat, lng |-> lng])

Entries ==
  { Branch(<<"A">>, JInt(0), JInt(0)),
    Branch(<<"B">>, JStr(T_60), JStr(T_0)),
    JDict([lat |-> JInt(-60), lng |-> JInt(60)]),
    Branch(<<"C">>, JInt(0), JStr(T_pad60)),
    Branch(<<"D">>, JStr(T_abc), JInt(0)),
    JDict([nombre |-> JStr(<<"E">>), lat |-> JInt(0)]),
    Branch(<<"F">>, JNull, JInt(0)),
    JInt(5),
    Branch(<<"G">>, JBigInt, JInt(0)),
    Branch(<<"H">>, JStr(T_nan), JInt(0)),
    Branch(<<"I">>, JInt(0), JStr(T_inf)) }

BranchLists == UNION { [1..n -> Entries] : n \in 0..MaxBranches }

\* candidates of a geocoding response
Cand(lat, lon) == JDict([lat |-> lat, lon |-> lon])

Responses ==
  { NetworkError("ConnectionError"),
    NetworkError("Timeout"),
    Body(Raise("JSONDecodeError")),
    Body(Ok(JList(<<>>))),
    Body(Ok(JNull)),
    Body(Ok(JDict([error |-> JStr(T_abc)]))),
    Body(Ok(JStr(T_abc))),
    Body(Ok(JList(<<JNull>>))),
    Body(Ok(JList(<<JDict([lon |-> JStr(T_0)])>>))),
    Body(Ok(JList(<<Cand(JStr(T_0), JNull)>>))),
    Body(Ok(JList(<<Cand(JStr(T_abc), JStr(T_0))>>))),
    Body(Ok(JList(<<Cand(JStr(T_0), JStr(T_0))>>))),
    Body(Ok(JList(<<Cand(JStr(T_60), JStr(T_0)), Cand(JStr(T_0), JStr(T_60))>>))),
    Body(Ok(JList(<<Cand(JStr(T_m60), JStr(T_pad60))>>))),
    Body(Ok(JList(<<Cand(JStr(T_nan), JStr(T_0))>>))) }

Addresses ==
  { <<>>, <<" ">>, <<"\t", " ">>, <<"a">>, <<" ", "a", " ">> }

(***************************************************************************)
(* State.                                                                  *)
(***************************************************************************)
VARIABLES
  SUCURSALES,    \* app.py:84  the branch list loaded at start
  pc,            \* where the run of the branch-search form stands
  user_address,  \* app.py:351 the submitted text
  geo_calls,     \* invocations of geocode_address_nominatim in this run
  requests,      \* outbound requests issued by the current invocation
  resp,          \* outcome of requests.get / resp.json
  coords,        \* outcome of geocode_address_nominatim
  user_lat,      \* arguments and locals of find_nearest_branch
  user_lon,
  i,
  nearest,
  min_dist,
  result,        \* outcome of find_nearest_branch
  message        \* what the form shows

VARIABLES
  callers,       \* concurrent invocations of find_nearest_branch: position,
                 \* arguments and outcome of each
  frames,        \* their locals idx, nearest and min_dist
  usuarios,      \* database.py: the table "usuarios"
  id_seq,        \* the last id_user the table has given out
  clientes,      \* database.py: the table "clientes"
  session,       \* st.session_state["user"] of each browser session
  view,          \* what the last run of main() rendered for the session
  page,          \* the page main_page rendered for the session
  options,       \* the entries that page offered
  spc,           \* where the script of the session stands
  reg,           \* arguments and locals of register_user in flight
  auth,          \* the call of authenticate_user of the session's last run
  backend,       \* how the table write of the session's last run ended
  notice,        \* the message the session shows
  hav            \* one call of haversine_distance: its two points and outcome

search_vars == <<pc, user_address, geo_calls, requests, resp, coords,
                 user_lat, user_lon, i, nearest, min_dist, result, message>>

conc_vars == <<callers, frames>>

db_vars == <<usuarios, id_seq, clientes>>

session_vars == <<session, view, page, options, spc, reg, auth, backend, notice>>

app_vars == <<db_vars, session_vars>>

vars == <<SUCURSALES, pc, user_address, geo_calls, requests, resp, coords,
          user_lat, user_lon, i, nearest, min_dist, result, message,
          callers, frames, usuarios, id_seq, clientes,
          session, view, page, options, spc, reg, auth, backend, notice, hav>>

Pending == [t |-> "pending"]

locator_vars == <<user_lat, user_lon, i, nearest, min_dist, result>>

\* the concurrent callers of find_nearest_branch and the browser sessions
Callers == {1, 2}
Sessions == {"s1", "s2"}

IdleCaller == [pc |-> "idle", lat |-> Pending, lon |-> Pending, result |-> Pending]
IdleFrame == [idx |-> 0, nearest |-> 0, min_dist |-> Pending]
NoRegistration == [username |-> "", password |-> "", rol |-> "", activado |-> FALSE]
NoAuth == [username |-> "", password |-> "", out |-> Pending]

\* no concurrent caller has started
ConcIdle ==
  /\ callers = [k \in Callers |-> IdleCaller]
  /\ frames = [k \in Callers |-> IdleFrame]

\* every session has just opened the application: nobody is logged in
SessionsIdle ==
  /\ session = [s \in Sessions |-> None]
  /\ view = [s \in Sessions |-> "login"]
  /\ page = [s \in Sessions |-> "none"]
  /\ spc = [s \in Sessions |-> "idle"]
  /\ options = [s \in Sessions |-> {}]
  /\ reg = [s \in Sessions |-> NoRegistration]
  /\ auth = [s \in Sessions |-> NoAuth]
  /\ backend = [s \in Sessions |-> "none"]
  /\ notice = [s \in Sessions |-> "none"]

\* haversine_distance has not been called
HavIdle == hav = [p |-> Pending, q |-> Pending, out |-> Pending]

\* empty tables
TablesEmpty ==
  /\ usuarios = <<>>
  /\ id_seq = 0
  /\ clientes = <<>>

\* the branch-search form has not been submitted
SearchIdle ==
  /\ pc = "idle"
  /\ user_address = <<>>
  /\ geo_calls = 0
  /\ requests = 0
  /\ resp = Pending
  /\ coords = Pending
  /\ user_lat = Pending
  /\ user_lon = Pending
  /\ i = 0
  /\ nearest = 0
  /\ min_dist = Pending
  /\ result = Pending
  /\ message = "none"

Init ==
  /\ SUCURSALES \in BranchLists
  /\ SearchIdle
  /\ ConcIdle
  /\ SessionsIdle
  /\ TablesEmpty
  /\ HavIdle

(***************************************************************************)
(* The branch-search form, app.py:351-371.                                 *)
(***************************************************************************)
\* the comparison without the strip
is_empty(address) == address = <<>>

\* app.py:357  user_address.strip() == ""
is_blank(address) == Strip(address) = <<>>

\* app.py:356-360: the form is submitted with the text a
Submit(a) ==
  /\ pc = "idle"
  /\ user_address' = a
  /\ requests' = 0
  /\ resp' = Pending
  /\ coords' = Pending
  /\ user_lat' = Pending
  /\ user_lon' = Pending
  /\ i' = 0
  /\ nearest' = 0
  /\ min_dist' = Pending
  /\ result' = Pending
  /\ IF is_blank(a)
       THEN /\ message' = "invalid_address"
            /\ geo_calls' = 0
            /\ pc' = "idle"
       ELSE /\ message' = "none"
            /\ geo_calls' = 1
            /\ pc' = "geocode_get"
  /\ UNCHANGED <<SUCURSALES, conc_vars, app_vars, hav>>

\* a resolver that asks again after a failed request
after_get_retry(r) == IF r.kind = "exc" THEN "geocode_get" ELSE "geocode_parse"

\* where geocode_address_nominatim goes once requests.get has produced r
after_get(r) == "geocode_parse"

\* app.py:47  the single requests.get of the invocation
geocode_get ==
  /\ pc = "geocode_get"
  /\ \E r \in Responses :
       /\ resp' = r
       /\ pc' = after_get(r)
  /\ requests' = requests + 1
  /\ UNCHANGED <<SUCURSALES, user_address, geo_calls, coords, locator_vars, message>>
  /\ UNCHANGED <<conc_vars, app_vars, hav>>

\* app.py:48-55 and 361-365: the rest of geocode_address_nominatim and what
\* the form does with its outcome
geocode_parse ==
  /\ pc = "geocode_parse"
  /\ LET c == geocode_address_nominatim(resp)
     IN  /\ coords' = c
         /\ IF ~c.ok
              THEN /\ message' = "exception"
                   /\ pc' = "idle"
                   /\ UNCHANGED locator_vars
              ELSE IF c.val = None
                THEN /\ message' = "address_not_found"
                     /\ pc' = "idle"
                     /\ UNCHANGED locator_vars
                ELSE /\ user_lat' = c.val.lat
                     /\ user_lon' = c.val.lon
                     /\ nearest' = locator_init.nearest
                     /\ min_dist' = locator_init.min_dist
                     /\ i' = 1
                     /\ pc' = "scan"
                     /\ UNCHANGED <<result, message>>
  /\ UNCHANGED <<SUCURSALES, user_address, geo_calls, requests, resp>>
  /\ UNCHANGED <<conc_vars, app_vars, hav>>

\* a loop that stores the converted latitude back into the entry
branches_after_write(sucursales, idx) ==
  LET lat == float_of_key(sucursales[idx], "lat")
  IN  IF lat.ok /\ lat.val.k = "fin"
        THEN [sucursales EXCEPT ![idx].d.lat = JInt(lat.val.v)]
        ELSE sucursales

\* the branch list after an iteration of the loop of find_nearest_branch
branches_after(sucursales, idx) == sucursales

\* app.py:71-78: one iteration of the loop
scan_iter ==
  /\ pc = "scan"
  /\ i <= Len(SUCURSALES)
  /\ LET r == loop_body([nearest |-> nearest, min_dist |-> min_dist],
                        user_lat, user_lon, SUCURSALES[i], i)
     IN  IF r.ok
           THEN /\ nearest' = r.val.nearest
                /\ min_dist' = r.val.min_dist
                /\ i' = i + 1
                /\ UNCHANGED <<pc, result, message>>
           ELSE /\ result' = r
                /\ message' = "exception"
                /\ pc' = "idle"
                /\ UNCHANGED <<nearest, min_dist, i>>
  /\ SUCURSALES' = branches_after(SUCURSALES, i)
  /\ UNCHANGED <<user_address, geo_calls, requests, resp, coords, user_lat, user_lon>>
  /\ UNCHANGED <<conc_vars, app_vars, hav>>

\* app.py:79 and 365-371: the return and the message of the form
scan_return ==
  /\ pc = "scan"
  /\ i > Len(SUCURSALES)
  /\ result' = Ok([nearest |-> nearest, min_dist |-> min_dist])
  /\ message' = IF nearest # 0 THEN "success" ELSE "no_branch"
  /\ pc' = "idle"
  /\ UNCHANGED <<SUCURSALES, user_address, geo_calls, requests, resp, coords,
                 user_lat, user_lon, i, nearest, min_dist>>
  /\ UNCHANGED <<conc_vars, app_vars, hav>>

Next ==
  \/ \E a \in Addresses : Submit(a)
  \/ geocode_get
  \/ geocode_parse
  \/ scan_iter
  \/ scan_return

Spec == Init /\ [][Next]_vars

(***************************************************************************)
(* Concurrent invocations of find_nearest_branch on the shared list.       *)
(***************************************************************************)
ConcEntries ==
  { Branch(<<"A">>, JInt(0), JInt(0)),
    Branch(<<"B">>, JStr(T_60), JStr(T_0)),
    Branch(<<"C">>, JInt(0), JStr(T_pad60)),
    Branch(<<"D">>, JStr(T_abc), JInt(0)),
    Branch(<<"G">>, JBigInt, JInt(0)) }

ConcLists == UNION { [1..n -> ConcEntries] : n \in 0..MaxBranches }

ConcOrigins ==
  { [lat |-> Fin(0), lon |-> Fin(0)],
    [lat |-> Fin(60), lon |-> Fin(0)],
    [lat |-> Fin(-60), lon |-> Fin(60)] }

\* one frame for all invocations, as if the locals were module globals
shared_frame(k) == 1

\* app.py:69-71: each invocation has its own locals
frame_of(k) == k

\* app.py:68-70: caller k enters find_nearest_branch with origin o
conc_call(k, o) ==
  /\ callers[k].pc \in {"idle", "done"}
  /\ callers' = [callers EXCEPT ![k] =
                   [pc |-> "loop", lat |-> o.lat, lon |-> o.lon, result |-> Pending]]
  /\ frames' = [frames EXCEPT ![frame_of(k)] =
                  [idx |-> 1, nearest |-> locator_init.nearest,
                   min_dist |-> locator_init.min_dist]]
  /\ UNCHANGED <<SUCURSALES, search_vars, app_vars, hav>>

\* app.py:71-78: one iteration of the loop of caller k
conc_iter(k) ==
  /\ callers[k].pc = "loop"
  /\ LET f == frames[frame_of(k)]
     IN  /\ f.idx <= Len(SUCURSALES)
         /\ LET r == loop_body([nearest |-> f.nearest, min_dist |-> f.min_dist],
                               callers[k].lat, callers[k].lon,
                               SUCURSALES[f.idx], f.idx)
            IN  IF r.ok
                  THEN /\ frames' = [frames EXCEPT ![frame_of(k)] =
                                      [idx |-> f.idx + 1, nearest |-> r.val.nearest,
                                       min_dist |-> r.val.min_dist]]
                       /\ UNCHANGED callers
                  ELSE /\ callers' = [callers EXCEPT ![k].pc = "done",
                                                     ![k].result = r]
                       /\ UNCHANGED frames
         /\ SUCURSALES' = branches_after(SUCURSALES, f.idx)
  /\ UNCHANGED <<search_vars, app_vars, hav>>

\* app.py:79: caller k returns
conc_return(k) ==
  /\ callers[k].pc = "loop"
  /\ LET f == frames[frame_of(k)]
     IN  /\ f.idx > Len(SUCURSALES)
         /\ callers' = [callers EXCEPT
                         ![k].pc = "done",
                         ![k].result = Ok([nearest |-> f.nearest,
                                           min_dist |-> f.min_dist])]
  /\ UNCHANGED <<SUCURSALES, frames, search_vars, app_vars, hav>>

InitConc ==
  /\ SUCURSALES \in ConcLists
  /\ SearchIdle
  /\ ConcIdle
  /\ SessionsIdle
  /\ TablesEmpty
  /\ HavIdle

NextConc ==
  \/ \E k \in Callers, o \in ConcOrigins : conc_call(k, o)
  \/ \E k \in Callers : conc_iter(k)
  \/ \E k \in Callers : conc_return(k)

SpecConc == InitConc /\ [][NextConc]_vars

(***************************************************************************)
(* haversine_distance applied to pairs of coordinates.                     *)
(***************************************************************************)
\* latitudes and longitudes in whole degrees for which the formula is exact
Latitudes == {-60, 0, 60}
Longitudes == {-180, -120, -60, 0, 60, 120, 180}

Coordinates == { [lat |-> Fin(a), lon |-> Fin(b)] : a \in Latitudes, b \in Longitudes }

\* app.py:58: the function is entered with the points p and q
hav_call(p, q) ==
  /\ hav.out # Pending \/ hav.p = Pending
  /\ hav' = [p |-> p, q |-> q, out |-> Pending]
  /\ UNCHANGED <<SUCURSALES, search_vars, conc_vars, app_vars>>

\* app.py:59-65: it returns (or raises)
hav_return ==
  /\ hav.p # Pending /\ hav.out = Pending
  /\ hav' = [hav EXCEPT !.out = haversine_distance(hav.p.lat, hav.p.lon, hav.q.lat, hav.q.lon)]
  /\ UNCHANGED <<SUCURSALES, search_vars, conc_vars, app_vars>>

InitHav ==
  /\ SUCURSALES = <<>>
  /\ SearchIdle
  /\ ConcIdle
  /\ SessionsIdle
  /\ TablesEmpty
  /\ HavIdle

NextHav ==
  \/ \E p, q \in Coordinates : hav_call(p, q)
  \/ hav_return

SpecHav == InitHav /\ [][NextHav]_vars

(***************************************************************************)
(* Users: passwords, registration, authentication, database.py:34-141.     *)
(***************************************************************************)
\* ids the table "usuarios" gives out
MaxUsers == 2

Usernames == {"ana", "bob", "eve"}
Passwords == {"pw1", "pw2"}
Salts == {"sB"}

\* bcrypt.hashpw(password, salt): the hash carries its salt
hashpw(password, salt) == [salt |-> salt, digest |-> <<salt, password>>]

\* database.py:34-40, salt being what bcrypt.gensalt() drew
hash_password(password, salt) == hashpw(password, salt)

\* database.py:42-46: bcrypt.checkpw hashes the password with the salt of
\* the stored hash and compares
check_password(password, hashed) == hashpw(password, hashed.salt) = hashed

UserRow(id, username, hashed, rol, activado) ==
  [id_user |-> id, username |-> username, pass |-> hashed,
   rol |-> rol, activado |-> activado]

\* database.py:51-60
check_admin_exists(tbl) ==
  LET data == SelectSeq(tbl, LAMBDA r : r.rol = "admin" /\ r.activado = TRUE)
  IN  IF data = <<>> THEN FALSE ELSE Len(data) > 0

\* database.py:68-74: the role and the activation register_user settles on
register_role(tbl) ==
  IF ~check_admin_exists(tbl)
    THEN [rol |-> "admin", activado |-> TRUE]
    ELSE [rol |-> "user", activado |-> TRUE]

\* database.py:77-87: the insert; the table refuses a username it already
\* holds with an APIError
insert_usuario(tbl, seq, username, hashed, rol, activado) ==
  IF \E k \in DOMAIN tbl : tbl[k].username = username
    THEN Raise("APIError")
    ELSE Ok(Append(tbl, UserRow(seq + 1, username, hashed, rol, activado)))

\* the select without .eq("activado", True)
authenticate_unfiltered(tbl, username, password) ==
  LET data == SelectSeq(tbl, LAMBDA r : r.username = username)
  IN  IF data = <<>> THEN None
      ELSE IF check_password(password, data[1].pass) THEN data[1] ELSE None

\* database.py:89-104
authenticate_user(tbl, username, password) ==
  LET data == SelectSeq(tbl, LAMBDA r : r.username = username /\ r.activado = TRUE)
  IN  IF data = <<>> THEN None
      ELSE IF check_password(password, data[1].pass) THEN data[1] ELSE None

\* database.py:106-111
get_all_pending_users(tbl) == SelectSeq(tbl, LAMBDA r : r.rol = "pendiente")

\* database.py:113-124
approve_user(tbl, user_id, new_role) ==
  [k \in DOMAIN tbl |->
     IF tbl[k].id_user = user_id
       THEN [tbl[k] EXCEPT !.rol = new_role, !.activado = TRUE]
       ELSE tbl[k]]

\* database.py:133-141
delete_user(tbl, user_id) == SelectSeq(tbl, LAMBDA r : r.id_user # user_id)

\* tables the application can find when it starts
UserTables ==
  { <<>>,
    << UserRow(1, "ana", hashpw("pw1", "sA"), "admin", TRUE) >>,
    << UserRow(1, "ana", hashpw("pw1", "sA"), "admin", FALSE) >>,
    << UserRow(1, "ana", hashpw("pw1", "sA"), "admin", TRUE),
       UserRow(2, "bob", hashpw("pw1", "sB"), "pendiente", TRUE) >> }

(***************************************************************************)
(* Clients, database.py:192-216.                                           *)
(***************************************************************************)
\* rows the table "clientes" holds
MaxClientes == 2

ClienteForm(nombre, email) ==
  [nombre |-> nombre, apellido |-> "Rojas", telefono |-> "555",
   direccion |-> "Calle 1", email |-> email]

ClienteForms ==
  { ClienteForm("Eva", "eva@x.cl"), ClienteForm("Leo", "leo@x.cl"),
    ClienteForm("Eva", ""), ClienteForm("", "leo@x.cl") }

\* app.py:282, 310: every field is filled in
FormComplete(f) ==
  f.nombre # "" /\ f.apellido # "" /\ f.telefono # "" /\ f.direccion # "" /\ f.email # ""

ClienteRow(id, f) ==
  [id_cliente |-> id, nombre |-> f.nombre, apellido |-> f.apellido,
   telefono |-> f.telefono, direccion |-> f.direccion, email |-> f.email]

\* database.py:192-203: written says whether execute() returned or raised
\* APIError; the function has no return statement
create_cliente(tbl, f, written) ==
  [table |-> IF written THEN Append(tbl, ClienteRow(Len(tbl) + 1, f)) ELSE tbl,
   ret |-> None]

\* database.py:205-216
update_cliente(tbl, cliente_id, f, written) ==
  [table |-> IF written
               THEN [k \in DOMAIN tbl |->
                       IF tbl[k].id_cliente = cliente_id
                         THEN ClienteRow(cliente_id, f) ELSE tbl[k]]
               ELSE tbl,
   ret |-> None]

\* the truth value of what a backend function returned
Truthy(v) == v # None

(***************************************************************************)
(* The pages, app.py:106-138, 143-173, 257-326, 575-643.                   *)
(***************************************************************************)
\* app.py:580-587
AdminMenu ==
  << "Gestion de Usuarios", "Empleados", "Clientes", "Pedidos Unificados",
     "Graficos", "Cerrar Sesion" >>

\* app.py:604-610
UserMenu ==
  << "Empleados", "Clientes", "Pedidos Unificados", "Graficos", "Cerrar Sesion" >>

Range(seq) == { seq[k] : k \in DOMAIN seq }

\* the menu of the administrator for every role
menu_open(rol) == AdminMenu

\* app.py:579, 603, 622: the selectbox main_page builds for the role
menu(rol) ==
  CASE rol = "admin" -> AdminMenu
    [] rol = "user" -> UserMenu
    [] OTHER -> <<>>

\* what main_page offers: the options of the selectbox, or the one button
offered(rol) ==
  IF menu(rol) = <<>> THEN {"Cerrar Sesion"} ELSE Range(menu(rol))

\* the page main_page renders for the choice the selectbox holds
page_of(rol, chosen) ==
  IF menu(rol) = <<>> THEN "no_access"
  ELSE IF chosen \in Range(menu(rol)) THEN chosen
  ELSE menu(rol)[1]

\* app.py:636-643
main_view(sess) == IF sess = None THEN "login" ELSE "main"

\* the run leaves the user in the session
logout_keep(sess) == sess

\* app.py:598, 619, 626: st.session_state.pop("user", None)
logout_pop(sess) == None

\* the other components
rest_vars == <<SUCURSALES, search_vars, conc_vars, hav>>

\* app.py:633-643: main() finds sess in the session state and renders, with
\* the choice the selectbox holds and the message nt
Show(s, sess, chosen, nt) ==
  /\ view' = [view EXCEPT ![s] = main_view(sess)]
  /\ page' = [page EXCEPT ![s] =
                IF sess = None THEN "none" ELSE page_of(sess.rol, chosen)]
  /\ options' = [options EXCEPT ![s] =
                   IF sess = None THEN {} ELSE offered(sess.rol)]
  /\ notice' = [notice EXCEPT ![s] = nt]

\* a run starts with no call and no write of its own
FreshRun(s) ==
  /\ auth' = [auth EXCEPT ![s] = NoAuth]
  /\ backend' = [backend EXCEPT ![s] = "none"]

\* a run that reads the user of the session from the table again
run_main_refresh(s) ==
  /\ spc[s] \in {"idle", "rerun"}
  /\ session' = [session EXCEPT ![s] =
                   IF session[s] = None THEN None
                   ELSE LET rows == SelectSeq(usuarios,
                                      LAMBDA r : r.id_user = session[s].id_user)
                        IN  IF rows = <<>> THEN None ELSE rows[1]]
  /\ Show(s, session[s], page[s], "none")
  /\ FreshRun(s)
  /\ spc' = [spc EXCEPT ![s] = "idle"]
  /\ UNCHANGED <<reg, db_vars, rest_vars>>

\* app.py:633-643: a run of the script with no button pressed, also the one
\* st.experimental_rerun() starts
run_main(s) ==
  /\ spc[s] \in {"idle", "rerun"}
  /\ Show(s, session[s], page[s], "none")
  /\ FreshRun(s)
  /\ spc' = [spc EXCEPT ![s] = "idle"]
  /\ UNCHANGED <<session, reg, db_vars, rest_vars>>

\* app.py:106-120: the run in which "Iniciar Sesion" is pressed
login_submit(s, u, p) ==
  /\ spc[s] = "idle"
  /\ session[s] = None
  /\ LET filled == u # "" /\ p # ""
         user == IF filled THEN authenticate_user(usuarios, u, p) ELSE None
     IN  /\ auth' = [auth EXCEPT ![s] =
                       IF filled THEN [username |-> u, password |-> p, out |-> user]
                       ELSE NoAuth]
         /\ session' = [session EXCEPT ![s] = user]
         /\ Show(s, session[s], page[s],
                 IF ~filled THEN "missing_credentials"
                 ELSE IF user # None THEN "welcome" ELSE "invalid_credentials")
  /\ backend' = [backend EXCEPT ![s] = "none"]
  /\ UNCHANGED <<spc, reg, db_vars, rest_vars>>

\* app.py:125-131, database.py:62-74: "Crear cuenta" is pressed and
\* register_user settles the role
reg_check(s, u, p) ==
  /\ spc[s] = "idle"
  /\ session[s] = None
  /\ id_seq + Cardinality({ t \in Sessions : spc[t] = "registering" }) < MaxUsers
  /\ IF u # "" /\ p # ""
       THEN /\ reg' = [reg EXCEPT ![s] =
                         [username |-> u, password |-> p,
                          rol |-> register_role(usuarios).rol,
                          activado |-> register_role(usuarios).activado]]
            /\ spc' = [spc EXCEPT ![s] = "registering"]
            /\ Show(s, session[s], page[s], "none")
       ELSE /\ Show(s, session[s], page[s], "missing_data")
            /\ UNCHANGED <<reg, spc>>
  /\ FreshRun(s)
  /\ UNCHANGED <<session, db_vars, rest_vars>>

\* database.py:76-87, app.py:132-136: the insert and the message
reg_insert(s) ==
  /\ spc[s] = "registering"
  /\ \E salt \in Salts :
       LET r == insert_usuario(usuarios, id_seq, reg[s].username,
                               hash_password(reg[s].password, salt),
                               reg[s].rol, reg[s].activado)
       IN  IF r.ok
             THEN /\ usuarios' = r.val
                  /\ id_seq' = id_seq + 1
                  /\ notice' = [notice EXCEPT ![s] = "account_created"]
             ELSE /\ notice' = [notice EXCEPT ![s] = "register_error"]
                  /\ UNCHANGED <<usuarios, id_seq>>
  /\ spc' = [spc EXCEPT ![s] = "idle"]
  /\ reg' = [reg EXCEPT ![s] = NoRegistration]
  /\ UNCHANGED <<session, view, page, options, auth, backend, clientes, rest_vars>>

\* app.py:579-594, 603-616: another page is chosen in the selectbox
choose(s, c) ==
  /\ spc[s] = "idle"
  /\ view[s] = "main"
  /\ c \in options[s] \ {"Cerrar Sesion"}
  /\ Show(s, session[s], c, "none")
  /\ FreshRun(s)
  /\ UNCHANGED <<session, spc, reg, db_vars, rest_vars>>

\* app.py:597-600, 618-621, 625-628: "Cerrar Sesion" is chosen or pressed
logout(s) ==
  /\ spc[s] = "idle"
  /\ view[s] = "main"
  /\ "Cerrar Sesion" \in options[s]
  /\ Show(s, session[s], "Cerrar Sesion", "session_closed")
  /\ session' = [session EXCEPT ![s] = logout_pop(session[s])]
  /\ spc' = [spc EXCEPT ![s] = "rerun"]
  /\ FreshRun(s)
  /\ UNCHANGED <<reg, db_vars, rest_vars>>

\* app.py:148-162: "Aprobar" is pressed for the pending user in row k;
\* written says whether the update went through or raised APIError
approve(s, k, new_role, written) ==
  /\ spc[s] = "idle"
  /\ view[s] = "main"
  /\ page[s] = "Gestion de Usuarios"
  /\ k \in DOMAIN usuarios
  /\ usuarios[k] \in Range(get_all_pending_users(usuarios))
  /\ usuarios' = IF written
                   THEN approve_user(usuarios, usuarios[k].id_user, new_role)
                   ELSE usuarios
  /\ notice' = [notice EXCEPT ![s] = "approved"]
  /\ spc' = [spc EXCEPT ![s] = "rerun"]
  /\ FreshRun(s)
  /\ UNCHANGED <<session, view, page, options, reg, id_seq, clientes, rest_vars>>

\* app.py:165-173: "Eliminar Usuario" is pressed for row k
delete(s, k, written) ==
  /\ spc[s] = "idle"
  /\ view[s] = "main"
  /\ page[s] = "Gestion de Usuarios"
  /\ k \in DOMAIN usuarios
  /\ usuarios[k].rol # "admin"
  /\ usuarios' = IF written THEN delete_user(usuarios, usuarios[k].id_user)
                 ELSE usuarios
  /\ notice' = [notice EXCEPT ![s] = "deleted"]
  /\ spc' = [spc EXCEPT ![s] = "rerun"]
  /\ FreshRun(s)
  /\ UNCHANGED <<session, view, page, options, reg, id_seq, clientes, rest_vars>>

\* app.py:270-291: the creation form is submitted
create_submit(s, f) ==
  /\ spc[s] = "idle"
  /\ view[s] = "main"
  /\ page[s] = "Clientes"
  /\ Len(clientes) < MaxClientes
  /\ IF FormComplete(f)
       THEN \E written \in BOOLEAN :
              LET r == create_cliente(clientes, f, written)
              IN  /\ clientes' = r.table
                  /\ backend' = [backend EXCEPT ![s] =
                                   IF written THEN "written" ELSE "APIError"]
                  /\ IF Truthy(r.ret)
                       THEN /\ notice' = [notice EXCEPT ![s] = "created"]
                            /\ spc' = [spc EXCEPT ![s] = "rerun"]
                       ELSE /\ notice' = [notice EXCEPT ![s] = "could_not_create"]
                            /\ UNCHANGED spc
       ELSE /\ notice' = [notice EXCEPT ![s] = "complete_all_fields"]
            /\ backend' = [backend EXCEPT ![s] = "none"]
            /\ UNCHANGED <<clientes, spc>>
  /\ auth' = [auth EXCEPT ![s] = NoAuth]
  /\ UNCHANGED <<session, view, page, options, reg, usuarios, id_seq, rest_vars>>

\* app.py:302-326: the update form is submitted for the client in row k
update_submit(s, k, f) ==
  /\ spc[s] = "idle"
  /\ view[s] = "main"
  /\ page[s] = "Clientes"
  /\ k \in DOMAIN clientes
  /\ IF FormComplete(f)
       THEN \E written \in BOOLEAN :
              LET r == update_cliente(clientes, clientes[k].id_cliente, f, written)
              IN  /\ clientes' = r.table
                  /\ backend' = [backend EXCEPT ![s] =
                                   IF written THEN "written" ELSE "APIError"]
                  /\ IF Truthy(r.ret)
                       THEN /\ notice' = [notice EXCEPT ![s] = "updated"]
                            /\ spc' = [spc EXCEPT ![s] = "rerun"]
                       ELSE /\ notice' = [notice EXCEPT ![s] = "could_not_update"]
                            /\ UNCHANGED spc
       ELSE /\ notice' = [notice EXCEPT ![s] = "complete_all_fields"]
            /\ backend' = [backend EXCEPT ![s] = "none"]
            /\ UNCHANGED <<clientes, spc>>
  /\ auth' = [auth EXCEPT ![s] = NoAuth]
  /\ UNCHANGED <<session, view, page, options, reg, usuarios, id_seq, rest_vars>>

\* what the forms can be given
LoginNames == Usernames \cup {""}
LoginPasswords == Passwords \cup {""}

\* login, registration, the menu and the management of users
InitUsers ==
  /\ SUCURSALES = <<>>
  /\ SearchIdle
  /\ ConcIdle
  /\ SessionsIdle
  /\ HavIdle
  /\ usuarios \in UserTables
  /\ id_seq = Len(usuarios)
  /\ clientes = <<>>

NextUsers ==
  \/ \E s \in Sessions : run_main(s)
  \/ \E s \in Sessions, u \in LoginNames, p \in LoginPasswords : login_submit(s, u, p)
  \/ \E s \in Sessions, u \in LoginNames, p \in LoginPasswords : reg_check(s, u, p)
  \/ \E s \in Sessions : reg_insert(s)
  \/ \E s \in Sessions, c \in Range(AdminMenu) : choose(s, c)
  \/ \E s \in Sessions : logout(s)
  \/ \E s \in Sessions, k \in 1..MaxUsers, r \in {"user", "admin"}, w \in BOOLEAN :
       approve(s, k, r, w)
  \/ \E s \in Sessions, k \in 1..MaxUsers, w \in BOOLEAN : delete(s, k, w)

SpecUsers == InitUsers /\ [][NextUsers]_vars

\* registrations alone, on a table that starts empty
InitRegister ==
  /\ SUCURSALES = <<>>
  /\ SearchIdle
  /\ ConcIdle
  /\ SessionsIdle
  /\ HavIdle
  /\ TablesEmpty

NextRegister ==
  \/ \E s \in Sessions, u \in LoginNames, p \in LoginPasswords : reg_check(s, u, p)
  \/ \E s \in Sessions : reg_insert(s)

SpecRegister == InitRegister /\ [][NextRegister]_vars

\* the clients page, with one administrator in the table of users
InitClientes ==
  /\ SUCURSALES = <<>>
  /\ SearchIdle
  /\ ConcIdle
  /\ SessionsIdle
  /\ HavIdle
  /\ usuarios = << UserRow(1, "ana", hashpw("pw1", "sA"), "admin", TRUE) >>
  /\ id_seq = 1
  /\ clientes = <<>>

NextClientes ==
  \/ \E s \in Sessions : run_main(s)
  \/ \E s \in Sessions, u \in LoginNames, p \in LoginPasswords : login_submit(s, u, p)
  \/ \E s \in Sessions, c \in Range(AdminMenu) : choose(s, c)
  \/ \E s \in Sessions : logout(s)
  \/ \E s \in Sessions, f \in ClienteForms : create_submit(s, f)
  \/ \E s \in Sessions, k \in 1..MaxClientes, f \in ClienteForms : update_submit(s, k, f)

SpecClientes == InitClientes /\ [][NextClientes]_vars

(***************************************************************************)
(* Vocabulary of the properties.                                           *)
(***************************************************************************)
\* float() succeeds on both coordinate fields of the entry
Converts(s) == float_of_key(s, "lat").ok /\ float_of_key(s, "lng").ok

\* the entry has parsable coordinates: both fields convert to finite numbers
Parsable(s) ==
  /\ Converts(s)
  /\ float_of_key(s, "lat").val.k = "fin"
  /\ float_of_key(s, "lng").val.k = "fin"

ParsableIdx == { j \in 1..Len(SUCURSALES) : Parsable(SUCURSALES[j]) }

FiniteOrigin == user_lat # Pending /\ user_lat.k = "fin" /\ user_lon.k = "fin"

\* the distance from the origin of the running invocation to the entry s
DistTo(s) ==
  haversine_distance(user_lat, user_lon,
                     float_of_key(s, "lat").val, float_of_key(s, "lng").val).val

LocatorDone == result # Pending

\* the list without the entries on which float() fails, and for each kept
\* entry its index in the original list
RECURSIVE KeptFrom(_)
KeptFrom(j) ==
  IF j > Len(SUCURSALES) THEN <<>>
  ELSE IF Converts(SUCURSALES[j]) THEN <<j>> \o KeptFrom(j + 1)
  ELSE KeptFrom(j + 1)

KeptIdx == KeptFrom(1)
KeptList == [n \in 1..Len(KeptIdx) |-> SUCURSALES[KeptIdx[n]]]

(***************************************************************************)
(* C1: whenever the list holds an entry with parsable coordinates, the     *)
(* locator returns a pair (b, d): b is a parsable entry of the list, d is  *)
(* the distance from the origin to b, and no parsable entry is strictly    *)
(* nearer than d.                                                          *)
(***************************************************************************)
C1_NearestReturned ==
  (LocatorDone /\ FiniteOrigin /\ ParsableIdx # {}) =>
    /\ result.ok
    /\ result.val.nearest \in ParsableIdx
    /\ result.val.min_dist = DistTo(SUCURSALES[result.val.nearest])
    /\ \A j \in ParsableIdx :
         ~FLess(DistTo(SUCURSALES[j]), result.val.min_dist)

(***************************************************************************)
(* C2: when several parsable entries share the minimum distance, the       *)
(* locator returns the one with the lowest index.                          *)
(***************************************************************************)
MinIdx ==
  { j \in ParsableIdx :
      \A m \in ParsableIdx : ~FLess(DistTo(SUCURSALES[m]), DistTo(SUCURSALES[j])) }

C2_FirstOfTies ==
  (LocatorDone /\ FiniteOrigin /\ Cardinality(MinIdx) > 1) =>
    /\ result.ok
    /\ result.val.nearest \in MinIdx
    /\ \A j \in MinIdx : result.val.nearest <= j

(***************************************************************************)
(* C3: an entry whose coordinates do not convert is excluded and does not  *)
(* stop the scan: the outcome is that of the same call on the list without *)
(* those entries.                                                          *)
(***************************************************************************)
C3_SkipsUnparsable ==
  LocatorDone =>
    LET f == find_nearest_branch(user_lat, user_lon, KeptList)
    IN  /\ result.ok
        /\ f.ok
        /\ result.val.min_dist = f.val.min_dist
        /\ result.val.nearest =
             (IF f.val.nearest = 0 THEN 0 ELSE KeptIdx[f.val.nearest])

(***************************************************************************)
(* C4: on an empty list, or one whose entries all fail to convert, the     *)
(* locator returns with both the branch and the distance absent.           *)
(***************************************************************************)
C4_NotFoundBothAbsent ==
  (LocatorDone /\ KeptIdx = <<>>) =>
    /\ result.ok
    /\ result.val.nearest = 0
    /\ result.val.min_dist = None

(***************************************************************************)
(* C5: whatever the entries of the list are, the locator ends with a       *)
(* returned result and raises nothing to its caller.                       *)
(***************************************************************************)
C5_LocatorNeverRaises == LocatorDone => result.ok

(***************************************************************************)
(* C6: every outcome of the request that is not a well-formed first        *)
(* candidate makes the resolver return None; nothing is raised.            *)
(***************************************************************************)
NumericField(x) ==
  \/ x.t = "int"
  \/ x.t = "str" /\ ParseFloat(x.s).ok /\ ParseFloat(x.s).val.k = "fin"

WellFormedFirst(r) ==
  /\ r.kind = "body"
  /\ r.json.ok
  /\ r.json.val.t = "list"
  /\ r.json.val.items # <<>>
  /\ LET first == r.json.val.items[1]
     IN  /\ first.t = "dict"
         /\ {"lat", "lon"} \subseteq DOMAIN first.d
         /\ NumericField(first.d.lat)
         /\ NumericField(first.d.lon)

ResolverDone == coords # Pending

C6_FailuresCollapse ==
  (ResolverDone /\ ~WellFormedFirst(resp)) => coords = Ok(None)

(***************************************************************************)
(* C7: when the response is a non-empty list whose first element carries   *)
(* the decimal text of two numbers as lat and lon, the resolver returns    *)
(* exactly that pair of numbers, whatever follows in the list.             *)
(***************************************************************************)
DigitChars == <<"0", "1", "2", "3", "4", "5", "6", "7", "8", "9">>

RECURSIVE FormatNat(_)
FormatNat(n) ==
  IF n < 10 THEN <<DigitChars[n + 1]>>
  ELSE FormatNat(n \div 10) \o <<DigitChars[(n % 10) + 1]>>

FormatInt(n) == IF n < 0 THEN <<"-">> \o FormatNat(0 - n) ELSE FormatNat(n)

Degrees == -90..90

\* the decimal text of every whole number of degrees
DegreeText == [n \in Degrees |-> FormatInt(n)]

IsDegreeText(x) == x.t = "str" /\ \E n \in Degrees : x.s = DegreeText[n]

\* the response r is a non-empty list whose first element has the decimal
\* text of two numbers as lat and lon
FirstIsNumericText(r) ==
  /\ r # Pending
  /\ r.kind = "body"
  /\ r.json.ok
  /\ r.json.val.t = "list"
  /\ r.json.val.items # <<>>
  /\ LET first == r.json.val.items[1]
     IN  /\ first.t = "dict"
         /\ {"lat", "lon"} \subseteq DOMAIN first.d
         /\ IsDegreeText(first.d.lat)
         /\ IsDegreeText(first.d.lon)

C7_FirstCandidate ==
  (ResolverDone /\ FirstIsNumericText(resp)) =>
    LET first == resp.json.val.items[1]
    IN  /\ coords.ok
        /\ coords.val # None
        /\ \A n \in Degrees :
             /\ first.d.lat.s = DegreeText[n] => coords.val.lat = Fin(n)
             /\ first.d.lon.s = DegreeText[n] => coords.val.lon = Fin(n)

C7_Witness ==
  /\ ResolverDone
  /\ FirstIsNumericText(resp)
  /\ Len(resp.json.val.items) > 1
  /\ coords = Ok([lat |-> Fin(60), lon |-> Fin(0)])

(***************************************************************************)
(* C8: an invocation of the resolver issues exactly one outbound request   *)
(* and then ends; no outcome of the request is followed by a second one.   *)
(***************************************************************************)
C8_SingleRequest ==
  /\ requests <= 1
  /\ (pc = "geocode_get" => requests = 0)
  /\ (pc = "geocode_parse" => requests = 1)
  /\ (ResolverDone => requests = 1)

C8_Witness ==
  /\ ResolverDone
  /\ resp.kind = "exc"
  /\ requests = 1

(***************************************************************************)
(* C9: no step of the locator changes the branch list: its length, order   *)
(* and entries stay what they were when the list was loaded.               *)
(***************************************************************************)
C9_BranchListUnchanged == [][SUCURSALES' = SUCURSALES]_vars

C9_Witness ==
  /\ LocatorDone
  /\ result.ok
  /\ result.val.nearest > 1
  /\ \E j \in 1..Len(SUCURSALES) : ~Converts(SUCURSALES[j])

(***************************************************************************)
(* C10: a submitted address that is empty or all whitespace gets the       *)
(* error message and the resolver is not invoked; the resolver runs only   *)
(* for an address with a non-whitespace character.                         *)
(***************************************************************************)
NonBlank(a) == \E n \in 1..Len(a) : a[n] \notin Whitespace

C10_BlankRejected ==
  /\ [](geo_calls > 0 => NonBlank(user_address))
  /\ [](pc # "idle" => NonBlank(user_address))
  /\ [][(pc = "idle" /\ ~NonBlank(user_address')) =>
          (message' = "invalid_address" /\ geo_calls' = 0 /\ requests' = 0
           /\ pc' = "idle")]_vars

C10_Witness ==
  /\ message = "invalid_address"
  /\ user_address # <<>>
  /\ geo_calls = 0

(***************************************************************************)
(* C11: a submitted search with a non-blank address ends in exactly one of *)
(* three outcomes: the address-not-found warning exactly when the resolver *)
(* returned None (the locator is then not invoked), the no-branch error    *)
(* exactly when the resolver returned coordinates and the locator no       *)
(* branch, the success message exactly when both stages succeeded.         *)
(***************************************************************************)
SearchEnded == pc = "idle" /\ geo_calls = 1

GotCoords == coords # Pending /\ coords.ok /\ coords.val # None

C11_ThreeOutcomes ==
  SearchEnded =>
    /\ message \in {"address_not_found", "no_branch", "success"}
    /\ message = "address_not_found" <=> coords = Ok(None)
    /\ coords = Ok(None) => result = Pending
    /\ message = "no_branch" <=>
         (GotCoords /\ result # Pending /\ result.ok /\ result.val.nearest = 0)
    /\ message = "success" <=>
         (GotCoords /\ result # Pending /\ result.ok /\ result.val.nearest # 0)

(***************************************************************************)
(* C12: under any interleaving of invocations that share the branch list,  *)
(* each invocation ends with the outcome it has when run alone on that     *)
(* list and origin, and a step of one invocation changes no state of       *)
(* another, nor the list.                                                  *)
(***************************************************************************)
CallerState(k) == <<callers[k], frames[k]>>

C12_IsolatedResults ==
  /\ [](\A k \in Callers :
          callers[k].pc = "done" =>
            callers[k].result =
              find_nearest_branch(callers[k].lat, callers[k].lon, SUCURSALES))
  /\ [][/\ SUCURSALES' = SUCURSALES
        /\ \A j, k \in Callers :
             (CallerState(j)' # CallerState(j) /\ CallerState(k)' # CallerState(k))
               => j = k]_vars

C12_Witness ==
  /\ callers[1].pc = "done"
  /\ callers[1].result.ok
  /\ callers[1].result.val.nearest = 2
  /\ callers[2].pc = "loop"
  /\ frames[2].idx = 2
  /\ frames[2].nearest = 1
  /\ callers[2].lat # callers[1].lat

\* C13: haversine_distance(lat, lon, lat, lon) is 0 for every coordinate
\* (lat, lon): whenever a call whose two points are the same has returned,
\* it has returned the distance 0.
C13_ZeroDistance ==
  (hav.out # Pending /\ hav.p = hav.q) => hav.out = Ok(Fin(0))

C13_Witness ==
  /\ hav.out = Ok(Fin(0))
  /\ hav.p = [lat |-> Fin(-60), lon |-> Fin(180)]
  /\ hav.q = hav.p

\* C14: haversine_distance is symmetric in its two points: the outcome of
\* a call with the points (p, q) is the outcome of the call with (q, p).
C14_Symmetric ==
  hav.out # Pending =>
    hav.out = haversine_distance(hav.q.lat, hav.q.lon, hav.p.lat, hav.p.lon)

C14_Witness ==
  /\ hav.out = Ok(Fin(11617))
  /\ hav.p = [lat |-> Fin(60), lon |-> Fin(-60)]
  /\ hav.q = [lat |-> Fin(0), lon |-> Fin(60)]

\* C15: register_user inserts the new user with rol 'admin' and activado
\* True when no user with rol 'admin' and activado True exists, and with rol
\* 'user' and activado True when such an admin exists: every row a
\* registration adds to the table carries the role the table calls for.
ActiveAdminExists(tbl) ==
  \E k \in DOMAIN tbl : tbl[k].rol = "admin" /\ tbl[k].activado = TRUE

C15_RoleByAdmin ==
  [][id_seq' = id_seq + 1 =>
       LET row == usuarios'[Len(usuarios')]
       IN  /\ row.activado = TRUE
           /\ row.rol = IF ActiveAdminExists(usuarios) THEN "user" ELSE "admin"]_vars

\* C16: authenticate_user returns a user record only if that record has the
\* given username, has activado True and its stored hash matches the given
\* password; when the table holds no such record (unknown username,
\* activado False, wrong password) it returns None.
Matches(r, username, password) ==
  /\ r.username = username
  /\ r.activado = TRUE
  /\ check_password(password, r.pass)

C16_Authenticate ==
  [][\A s \in Sessions :
       (auth'[s] # auth[s] /\ auth'[s].out # Pending) =>
         LET a == auth'[s]
         IN  /\ a.out # None =>
                   /\ a.out \in Range(usuarios)
                   /\ Matches(a.out, a.username, a.password)
             /\ (~\E k \in DOMAIN usuarios :
                     Matches(usuarios[k], a.username, a.password)) => a.out = None]_vars

C16_Witness ==
  /\ auth["s1"].out \notin {Pending, None}
  /\ auth["s1"].out.rol = "user"
  /\ auth["s2"] = [username |-> "ana", password |-> "pw2", out |-> None]
  /\ Len(usuarios) = 2
  /\ usuarios[1].username = "ana" /\ usuarios[1].activado = TRUE

\* C17: main() renders the application pages if and only if the session
\* holds a user when it runs, and only the login and registration tabs
\* otherwise; a user enters the session only as what authenticate_user
\* returned for the submitted credentials; after the logout choice the
\* session holds no user.
SessionState(s) ==
  <<session[s], view[s], page[s], options[s], spc[s], reg[s], auth[s],
    backend[s], notice[s]>>

C17_LoginGate ==
  /\ [](\A s \in Sessions :
          /\ (spc[s] = "idle" /\ session[s] = None) => view[s] = "login"
          /\ view[s] = "login" => (page[s] = "none" /\ options[s] = {})
          /\ notice[s] = "session_closed" => session[s] = None)
  /\ [][\A s \in Sessions :
          /\ SessionState(s)' # SessionState(s) =>
                (view'[s] = "main" <=> session[s] # None)
          /\ (session'[s] # session[s] /\ session'[s] # None) =>
                /\ auth'[s].username # "" /\ auth'[s].password # ""
                /\ session'[s] =
                     authenticate_user(usuarios, auth'[s].username, auth'[s].password)
                /\ session'[s] = auth'[s].out]_vars

C17_Witness ==
  /\ session["s1"] # None /\ view["s1"] = "main" /\ page["s1"] = "Empleados"
  /\ notice["s2"] = "session_closed" /\ view["s2"] = "main" /\ spc["s2"] = "rerun"

\* C18: the user-management page is reachable only when the role stored in
\* the session user is 'admin'; a session whose role is 'user' is offered
\* only employees, clients, orders, charts and logout, and a session with
\* any other role only logout.
C18_RoleGate ==
  \A s \in Sessions :
    /\ page[s] = "Gestion de Usuarios" => (session[s] # None /\ session[s].rol = "admin")
    /\ (view[s] = "main" /\ session[s] # None) =>
         /\ session[s].rol = "user" =>
               options[s] = {"Empleados", "Clientes", "Pedidos Unificados",
                             "Graficos", "Cerrar Sesion"}
         /\ session[s].rol \notin {"admin", "user"} =>
               (options[s] = {"Cerrar Sesion"} /\ page[s] = "no_access")

C18_Witness ==
  /\ session["s1"] # None /\ session["s1"].rol = "user" /\ page["s1"] = "Clientes"
  /\ session["s2"] # None /\ session["s2"].rol = "pendiente"
  /\ options["s2"] = {"Cerrar Sesion"}

\* C19: on the clients page a complete creation (update) form shows the
\* success message and reruns the page exactly when the backend write
\* succeeded, and shows the could-not-create (could-not-update) error
\* exactly when the write failed.
C19_MessageFollowsWrite ==
  \A s \in Sessions :
    /\ backend[s] = "written" =>
         (notice[s] \in {"created", "updated"} /\ spc[s] = "rerun")
    /\ backend[s] = "APIError" =>
         notice[s] \in {"could_not_create", "could_not_update"}

\* C20: starting from a table with no active admin, after any interleaving
\* of register_user invocations at most one of the registered users holds
\* rol 'admin'.
C20_OneAdmin ==
  Cardinality({ k \in DOMAIN usuarios : usuarios[k].rol = "admin" }) <= 1

\* C21: in every result of find_nearest_branch the branch component is None
\* if and only if the distance component is the initial infinity sentinel,
\* and whenever a branch is returned the distance component is the finite
\* distance computed for that same branch.
C21_BranchIffDistance ==
  (LocatorDone /\ result.ok) =>
    /\ result.val.nearest = 0 <=> result.val.min_dist = locator_init.min_dist
    /\ result.val.nearest # 0 =>
         /\ result.val.nearest \in 1..Len(SUCURSALES)
         /\ Converts(SUCURSALES[result.val.nearest])
         /\ result.val.min_dist.k = "fin"
         /\ result.val.min_dist = DistTo(SUCURSALES[result.val.nearest])

C21_Witness ==
  /\ LocatorDone /\ result.ok
  /\ Len(SUCURSALES) = 3
  /\ ~Converts(SUCURSALES[1])
  /\ Converts(SUCURSALES[2])
  /\ result.val.nearest = 3
  /\ result.val.min_dist.k = "fin"

\* C22: the user record held in a session is written only by a successful
\* login and removed only by the logout choice; every other operation,
\* delete_user and approve_user applied to that user by another session
\* included, leaves it unchanged, and main_page offers what the role of the
\* record held since login calls for.
C22_SessionFrame ==
  /\ [](\A s \in Sessions :
          (view[s] = "main" /\ session[s] # None) =>
            options[s] = offered(session[s].rol))
  /\ [][(usuarios' # usuarios => session' = session) /\
        (\A s \in Sessions :
           session'[s] # session[s] =>
             \/ /\ session[s] = None
                /\ session'[s] # None
                /\ notice'[s] = "welcome"
                /\ auth'[s].out = session'[s]
             \/ /\ session[s] # None
                /\ session'[s] = None
                /\ notice'[s] = "session_closed")]_vars

C22_Witness ==
  /\ session["s1"] # None /\ session["s1"].rol = "admin"
  /\ session["s2"] # None /\ session["s2"].rol = "pendiente"
  /\ view["s2"] = "main" /\ options["s2"] = {"Cerrar Sesion"}
  /\ \E k \in DOMAIN usuarios :
       /\ usuarios[k].id_user = session["s2"].id_user
       /\ usuarios[k].rol = "admin"

====
